---- MODULE Spec2Model ----
(***************************************************************************)
(* The Pomodoro timer of src/src/app/page.tsx (component PomodoroApp) as a *)
(* state machine.  The React state variables are the model's variables; a  *)
(* step is one callback (a click handler, a slider's onChange, the         *)
(* interval's callback) together with the re-render it causes: the timer   *)
(* effect's cleanup, the timer effect's body, and the further re-render    *)
(* that the effect's own state updates cause.                              *)
(*                                                                         *)
(* Time is scaled: the code counts 60 seconds to the minute, the model     *)
(* SecPerMin ticks to the minute, so that a whole phase (15 minutes and    *)
(* more) is explored.  The sliders offer every integer of their range; the *)
(* model offers two values of each range.                                   *)
(*                                                                         *)
(* The platform's audio and notification services are the environment: a   *)
(* step draws their outcome (AlarmEnvs).  The tone is played inside a      *)
(* try/catch; the Notification constructor is called outside any, so an    *)
(* exception of it leaves the timer effect and React unmounts the          *)
(* component (crashed).                                                    *)
(***************************************************************************)
EXTENDS Integers, FiniteSets, Sequences, TLC

\* ---- bounds of the model ----
SecPerMin == 2
MaxPomodoros == 5

\* ---- program constants ----
WorkDefault == 25
ShortBreakDefault == 5
LongBreakDefault == 15
WorkMin == 15
WorkMax == 60
ShortBreakMin == 3
ShortBreakMax == 15
LongBreakMin == 15
LongBreakMax == 45
LongBreakEvery == 4
VolumeDefault == 5
VolumeMin == 0
VolumeMax == 10

VARIABLES
    timeLeft,             \* useState(25 * 60): seconds left in the phase
    isActive,             \* useState(false): the countdown is running
    isBreak,              \* useState(false): the phase is a break
    completedPomodoros,   \* useState(0)
    workDuration,         \* minutes
    shortBreakDuration,   \* minutes
    longBreakDuration,    \* minutes
    intervalRef,          \* "null" | "armed" | "cleared": the interval intervalRef.current names
    strayIntervals,       \* live intervals that intervalRef.current no longer names
    alarmVolume,          \* useState(0.5), in tenths
    crashed,              \* an exception left the timer effect: the component is unmounted
    alarmCalls,           \* calls of playAlarm in the last step
    tonesPlayed,          \* tones the last step played
    breakIsLong,          \* history: the running break was chosen as a long break
    tracking,             \* history: whether runFrom and ticksRun are recorded
    lastOp,               \* history: the callback that ran last
    runFrom,              \* history: timeLeft when the current run was started (0: not started)
    ticksRun,             \* history: ticks since the last start/pause/reset
    flipsRun              \* history: changes of isBreak since the last start/pause/reset

progVars == <<timeLeft, isActive, isBreak, completedPomodoros, workDuration,
              shortBreakDuration, longBreakDuration, intervalRef, strayIntervals,
              alarmVolume, crashed, alarmCalls, tonesPlayed>>
histVars == <<lastOp, runFrom, ticksRun, flipsRun, breakIsLong, tracking>>
vars == <<progVars, histVars>>

\* The values the model moves a slider to: two of its range (for the short
\* break both ends: at 15 minutes it is as long as the shortest long break).
WorkChoices == {v \in WorkMin..WorkMax : v = WorkMin \/ v = WorkDefault}
ShortBreakChoices ==
    {v \in ShortBreakMin..ShortBreakMax : v = ShortBreakMin \/ v = ShortBreakMax}
LongBreakChoices ==
    {v \in LongBreakMin..LongBreakMax : v = LongBreakMin \/ v = LongBreakMin + 1}
VolumeChoices == {v \in VolumeMin..VolumeMax : v = VolumeMin \/ v = VolumeDefault}

\* What the platform does with an alarm: the tone plays or its playback throws;
\* the notification is not attempted (no Notification API, or permission not
\* granted), is shown, or its constructor throws.
AlarmEnvs == [beep : {"ok", "fails"}, notify : {"off", "shown", "throws"}]

\* The component's state as one record, as a render sees it.
State ==
    [timeLeft |-> timeLeft, isActive |-> isActive, isBreak |-> isBreak,
     completedPomodoros |-> completedPomodoros, workDuration |-> workDuration,
     shortBreakDuration |-> shortBreakDuration, longBreakDuration |-> longBreakDuration,
     intervalRef |-> intervalRef, strayIntervals |-> strayIntervals,
     alarmVolume |-> alarmVolume, alarmCalls |-> 0, tonesPlayed |-> 0, threw |-> FALSE,
     isLongBreak |-> breakIsLong,
     env |-> [beep |-> "ok", notify |-> "off"]]

\* The timer effect's dependency list.
Deps(s) ==
    <<s.isActive, s.timeLeft, s.isBreak, s.workDuration, s.shortBreakDuration,
      s.longBreakDuration, s.completedPomodoros>>

\* if (intervalRef.current) clearInterval(intervalRef.current)
clearInterval(s) ==
    IF s.intervalRef = "armed" THEN [s EXCEPT !.intervalRef = "cleared"] ELSE s

\* intervalRef.current = setInterval(...): the interval the ref named before,
\* if still live, lives on unreferenced.
setInterval(s) ==
    [s EXCEPT !.intervalRef = "armed",
              !.strayIntervals = @ + (IF s.intervalRef = "armed" THEN 1 ELSE 0)]

\* Faulty variant: the cleanup leaves the interval running.
EffectCleanup_NoClear(s) == s

\* The timer effect's cleanup.
EffectCleanup(s) == clearInterval(s)

\* Faulty variant: the break type is chosen from the count before the increment.
PhaseComplete_StaleCount(s) ==
    IF s.isBreak
    THEN [s EXCEPT !.isBreak = FALSE,
                   !.timeLeft = s.workDuration * SecPerMin,
                   !.isActive = FALSE]
    ELSE LET newCompletedCount == s.completedPomodoros + 1
             isLongBreak == s.completedPomodoros % LongBreakEvery = 0
         IN  [s EXCEPT !.completedPomodoros = newCompletedCount,
                       !.isBreak = TRUE,
                       !.timeLeft = IF isLongBreak THEN s.longBreakDuration * SecPerMin
                                                   ELSE s.shortBreakDuration * SecPerMin,
                       !.isActive = FALSE]

\* Faulty variant: a finished break counts as a pomodoro too.
PhaseComplete_CountsBreaks(s) ==
    IF s.isBreak
    THEN [s EXCEPT !.isBreak = FALSE,
                   !.completedPomodoros = s.completedPomodoros + 1,
                   !.timeLeft = s.workDuration * SecPerMin,
                   !.isActive = FALSE]
    ELSE LET newCompletedCount == s.completedPomodoros + 1
             isLongBreak == newCompletedCount % LongBreakEvery = 0
         IN  [s EXCEPT !.completedPomodoros = newCompletedCount,
                       !.isBreak = TRUE,
                       !.timeLeft = IF isLongBreak THEN s.longBreakDuration * SecPerMin
                                                   ELSE s.shortBreakDuration * SecPerMin,
                       !.isActive = FALSE]

\* Faulty variant: after a break the countdown is set to the default 25 minutes,
\* not to the configured work duration.
PhaseComplete_DefaultWork(s) ==
    IF s.isBreak
    THEN [s EXCEPT !.isBreak = FALSE,
                   !.timeLeft = WorkDefault * SecPerMin,
                   !.isActive = FALSE]
    ELSE LET newCompletedCount == s.completedPomodoros + 1
             isLongBreak == newCompletedCount % LongBreakEvery = 0
         IN  [s EXCEPT !.completedPomodoros = newCompletedCount,
                       !.isBreak = TRUE,
                       !.timeLeft = IF isLongBreak THEN s.longBreakDuration * SecPerMin
                                                   ELSE s.shortBreakDuration * SecPerMin,
                       !.isActive = FALSE]

\* Faulty variant: the next phase starts running at once (no setIsActive(false)).
PhaseComplete_AutoChain(s) ==
    IF s.isBreak
    THEN [s EXCEPT !.isBreak = FALSE,
                   !.timeLeft = s.workDuration * SecPerMin]
    ELSE LET newCompletedCount == s.completedPomodoros + 1
             isLongBreak == newCompletedCount % LongBreakEvery = 0
         IN  [s EXCEPT !.completedPomodoros = newCompletedCount,
                       !.isBreak = TRUE,
                       !.timeLeft = IF isLongBreak THEN s.longBreakDuration * SecPerMin
                                                   ELSE s.shortBreakDuration * SecPerMin]

\* The "timer finished" branch of the timer effect.
PhaseComplete(s) ==
    IF s.isBreak
    THEN [s EXCEPT !.isBreak = FALSE,
                   !.timeLeft = s.workDuration * SecPerMin,
                   !.isActive = FALSE]
    ELSE LET newCompletedCount == s.completedPomodoros + 1
             isLongBreak == newCompletedCount % LongBreakEvery = 0
         IN  [s EXCEPT !.completedPomodoros = newCompletedCount,
                       !.isBreak = TRUE,
                       !.isLongBreak = isLongBreak,
                       !.timeLeft = IF isLongBreak THEN s.longBreakDuration * SecPerMin
                                                   ELSE s.shortBreakDuration * SecPerMin,
                       !.isActive = FALSE]

\* playBeep: the whole body is inside try/catch, a failure is logged.
playBeep(s) ==
    IF s.env.beep = "ok" THEN [s EXCEPT !.tonesPlayed = @ + 1] ELSE s

\* playAlarm: playBeep(), then new Notification(...) when the API is there and
\* permitted; an exception of the constructor is not caught.
playAlarm(s) ==
    LET b == playBeep([s EXCEPT !.alarmCalls = @ + 1])
    IN  IF s.env.notify = "throws" THEN [b EXCEPT !.threw = TRUE] ELSE b

\* Faulty variant: the effect arms the interval whether or not the timer runs.
TimerEffect_ArmsWhenIdle(s) ==
    IF s.timeLeft > 0 THEN setInterval(s)
    ELSE IF s.timeLeft = 0
         THEN LET a == playAlarm(s) IN IF a.threw THEN a ELSE PhaseComplete(a)
    ELSE s

\* Faulty variant: the effect changes phase without calling playAlarm().
TimerEffect_NoAlarm(s) ==
    IF s.isActive /\ s.timeLeft > 0 THEN setInterval(s)
    ELSE IF s.timeLeft = 0 THEN PhaseComplete(s)
    ELSE s

\* The timer effect's body.  An exception of playAlarm() leaves the effect
\* before any of the state updates that follow it.
TimerEffect(s) ==
    IF s.isActive /\ s.timeLeft > 0 THEN setInterval(s)
    ELSE IF s.timeLeft = 0
         THEN LET a == playAlarm(s) IN IF a.threw THEN a ELSE PhaseComplete(a)
    ELSE s

\* A re-render after a state update: the previous effect's cleanup, the effect,
\* and again while the effect itself changes a dependency.  Nothing is rendered
\* after an exception has left the effect.
RECURSIVE Render(_)
Render(s) ==
    LET e == TimerEffect(EffectCleanup(s))
    IN  IF ~e.threw /\ Deps(e) # Deps(s) THEN Render(e) ELSE e

\* Faulty variant: a tick takes two seconds off.
tickUpdate_Double(s) == [s EXCEPT !.timeLeft = s.timeLeft - 2]

\* setTimeLeft(time => time - 1)
tickUpdate(s) == [s EXCEPT !.timeLeft = s.timeLeft - 1]

\* Faulty variant: the play/pause button also restarts the work countdown.
toggleTimerUpdate_Restart(s) ==
    [s EXCEPT !.isActive = ~s.isActive, !.timeLeft = s.workDuration * SecPerMin]

\* setIsActive(!isActive)
toggleTimerUpdate(s) == [s EXCEPT !.isActive = ~s.isActive]

\* Faulty variant: reset leaves the phase as it is.
resetTimer_KeepsPhase(s) ==
    clearInterval([s EXCEPT !.isActive = FALSE,
                            !.timeLeft = s.workDuration * SecPerMin])

\* The reset button's handler.
resetTimer(s) ==
    clearInterval([s EXCEPT !.isActive = FALSE,
                            !.isBreak = FALSE,
                            !.timeLeft = s.workDuration * SecPerMin])

\* Faulty variant: the session reset clears the counter only.
resetSession_CounterOnly(s) == [s EXCEPT !.completedPomodoros = 0]

\* The "Reset Session" handler: resetTimer(), then setCompletedPomodoros(0).
resetSession(s) == [resetTimer(s) EXCEPT !.completedPomodoros = 0]

\* Faulty variant: moving the work slider also restarts the countdown.
setWorkDuration_ResetsCountdown(s, v) ==
    [s EXCEPT !.workDuration = v, !.timeLeft = v * SecPerMin]

\* The sliders' onChange handlers.
setWorkDuration(s, v) == [s EXCEPT !.workDuration = v]

setShortBreakDuration(s, v) == [s EXCEPT !.shortBreakDuration = v]

setLongBreakDuration(s, v) == [s EXCEPT !.longBreakDuration = v]

setAlarmVolume(s, v) == [s EXCEPT !.alarmVolume = v]

\* Faulty variant: the display takes the break after the next pomodoro.
totalDuration_NextCount(s) ==
    IF s.isBreak
    THEN (IF (s.completedPomodoros + 1) % LongBreakEvery = 0
          THEN s.longBreakDuration ELSE s.shortBreakDuration) * SecPerMin
    ELSE s.workDuration * SecPerMin

\* Faulty variant: the label is computed from the count as it stands.
nextPhaseLabel_CurrentCount(s) ==
    IF s.isBreak THEN "Focus"
    ELSE IF s.completedPomodoros % LongBreakEvery = 0 THEN "Long Break"
    ELSE "Short Break"

\* The "Next:" label.
nextPhaseLabel(s) ==
    IF s.isBreak THEN "Focus"
    ELSE IF (s.completedPomodoros + 1) % LongBreakEvery = 0 THEN "Long Break"
    ELSE "Short Break"

\* Derived values of a render.
totalDuration(s) ==
    IF s.isBreak
    THEN (IF s.completedPomodoros > 0 /\ s.completedPomodoros % LongBreakEvery = 0
          THEN s.longBreakDuration ELSE s.shortBreakDuration) * SecPerMin
    ELSE s.workDuration * SecPerMin

\* The state a callback leaves behind.
Commit(s) ==
    /\ timeLeft' = s.timeLeft
    /\ isActive' = s.isActive
    /\ isBreak' = s.isBreak
    /\ completedPomodoros' = s.completedPomodoros
    /\ workDuration' = s.workDuration
    /\ shortBreakDuration' = s.shortBreakDuration
    /\ longBreakDuration' = s.longBreakDuration
    /\ intervalRef' = s.intervalRef
    /\ strayIntervals' = s.strayIntervals
    /\ alarmVolume' = s.alarmVolume
    /\ crashed' = s.threw
    /\ alarmCalls' = s.alarmCalls
    /\ tonesPlayed' = s.tonesPlayed
    /\ breakIsLong' = (s.isBreak /\ s.isLongBreak)

\* The platform's behaviours that matter to the render of u: its audio and
\* notification services are called only by an effect that finds timeLeft at 0.
EnvsAt(u) == IF u.timeLeft = 0 THEN AlarmEnvs ELSE {u.env}

\* The re-render of the updated state u under each behaviour of the platform.
Renders(u) == {Render([u EXCEPT !.env = env]) : env \in EnvsAt(u)}

\* History of a user action that starts, pauses or resets the countdown.
UserHistory(op, s) ==
    /\ lastOp' = op
    /\ runFrom' = IF tracking /\ s.isActive THEN s.timeLeft ELSE 0
    /\ ticksRun' = 0
    /\ flipsRun' = 0
    /\ tracking' = tracking

\* History of a slider's onChange.
SliderHistory(op) ==
    /\ lastOp' = op
    /\ UNCHANGED <<runFrom, ticksRun, flipsRun, tracking>>

InitState ==
    /\ timeLeft = WorkDefault * SecPerMin
    /\ isActive = FALSE
    /\ isBreak = FALSE
    /\ completedPomodoros = 0
    /\ workDuration = WorkDefault
    /\ shortBreakDuration = ShortBreakDefault
    /\ longBreakDuration = LongBreakDefault
    /\ intervalRef = "null"
    /\ strayIntervals = 0
    /\ alarmVolume = VolumeDefault
    /\ crashed = FALSE
    /\ alarmCalls = 0
    /\ tonesPlayed = 0
    /\ lastOp = "init"
    /\ runFrom = 0
    /\ ticksRun = 0
    /\ flipsRun = 0
    /\ breakIsLong = FALSE

Init == InitState /\ tracking = FALSE

\* The same program, with the history of each run recorded.
InitRun == InitState /\ tracking = TRUE

\* The interval's callback fires.
Tick ==
    /\ ~crashed
    /\ intervalRef = "armed" \/ strayIntervals > 0
    /\ ~(timeLeft = 1 /\ ~isBreak /\ completedPomodoros >= MaxPomodoros)
    /\ \E s \in Renders(tickUpdate(State)) :
             /\ Commit(s)
             /\ lastOp' = "tick"
             /\ runFrom' = runFrom
             /\ ticksRun' = IF tracking THEN ticksRun + 1 ELSE 0
             /\ flipsRun' = flipsRun + (IF s.isBreak # isBreak THEN 1 ELSE 0)
             /\ tracking' = tracking

\* The play/pause button.
ToggleTimer ==
    /\ ~crashed
    /\ \E s \in Renders(toggleTimerUpdate(State)) :
         Commit(s) /\ UserHistory("toggleTimer", s)

\* The reset button.
ResetTimer ==
    /\ ~crashed
    /\ \E s \in Renders(resetTimer(State)) :
         Commit(s) /\ UserHistory("resetTimer", s)

\* The "Reset Session" link.
ResetSession ==
    /\ ~crashed
    /\ \E s \in Renders(resetSession(State)) :
         Commit(s) /\ UserHistory("resetSession", s)

\* The settings sliders.
SetWorkDuration ==
    /\ ~crashed
    /\ \E v \in WorkChoices \ {workDuration} :
         \E s \in Renders(setWorkDuration(State, v)) :
             /\ Commit(s)
             /\ SliderHistory("setWorkDuration")

SetShortBreakDuration ==
    /\ ~crashed
    /\ \E v \in ShortBreakChoices \ {shortBreakDuration} :
         \E s \in Renders(setShortBreakDuration(State, v)) :
             /\ Commit(s)
             /\ SliderHistory("setShortBreakDuration")

SetLongBreakDuration ==
    /\ ~crashed
    /\ \E v \in LongBreakChoices \ {longBreakDuration} :
         \E s \in Renders(setLongBreakDuration(State, v)) :
             /\ Commit(s)
             /\ SliderHistory("setLongBreakDuration")

SetAlarmVolume ==
    /\ ~crashed
    /\ \E v \in VolumeChoices \ {alarmVolume} :
         \E s \in Renders(setAlarmVolume(State, v)) :
             /\ Commit(s)
             /\ SliderHistory("setAlarmVolume")

Next ==
    \/ Tick
    \/ ToggleTimer
    \/ ResetTimer
    \/ ResetSession
    \/ SetWorkDuration
    \/ SetShortBreakDuration
    \/ SetLongBreakDuration
    \/ SetAlarmVolume

Spec == Init /\ [][Next]_vars

\* The specification with the history of each run recorded.
SpecRun == InitRun /\ [][Next]_vars

\* ---- state descriptions used by the properties ----

\* The step is the tick that takes the countdown of a phase to 0.
CompletingTick == lastOp' = "tick" /\ timeLeft = 1

\* The last callback was a tick that completed a phase.
JustCompleted == lastOp = "tick" /\ ~isActive

ConfigUnchanged ==
    UNCHANGED <<workDuration, shortBreakDuration, longBreakDuration>>

\* ---- properties ----

\* C1: in every reachable state 0 <= timeLeft <= totalDuration, the duration of
\* the current phase under the current configuration (progress within 0..100%).
C1_TimeLeftWithinPhase ==
    /\ timeLeft >= 0
    /\ timeLeft <= totalDuration(State)

\* C2: the tick that completes a focus phase increments completedPomodoros by
\* one, enters the break, stops the timer, and sets timeLeft to the long break
\* if the incremented count is a multiple of 4 and to the short break otherwise.
C2_FocusCompletion ==
    [][(CompletingTick /\ ~isBreak) =>
          /\ completedPomodoros' = completedPomodoros + 1
          /\ isBreak'
          /\ ~isActive'
          /\ timeLeft' = IF completedPomodoros' % 4 = 0
                         THEN longBreakDuration * SecPerMin
                         ELSE shortBreakDuration * SecPerMin
          /\ ConfigUnchanged]_vars

\* C2 witness: the fourth focus phase has just completed into a long break that
\* differs in length from the short break.
C2_Witness ==
    /\ JustCompleted
    /\ isBreak
    /\ completedPomodoros = 4
    /\ timeLeft = longBreakDuration * SecPerMin
    /\ longBreakDuration # shortBreakDuration

\* C3: completedPomodoros changes only by +1 at the completion of a focus
\* phase, or to 0 by resetSession; no other step changes it.
C3_CounterSteps ==
    [][completedPomodoros' # completedPomodoros =>
          \/ /\ CompletingTick
             /\ ~isBreak
             /\ completedPomodoros' = completedPomodoros + 1
          \/ /\ lastOp' = "resetSession"
             /\ completedPomodoros' = 0]_vars

\* C3 witness: a break has just completed and the counter still holds the
\* focus phases completed before it.
C3_Witness ==
    /\ JustCompleted
    /\ ~isBreak
    /\ completedPomodoros = 2

\* C4: the tick that completes a break leaves the break, sets timeLeft to the
\* configured work duration, and stops the timer.
C4_BreakCompletion ==
    [][(CompletingTick /\ isBreak) =>
          /\ ~isBreak'
          /\ timeLeft' = workDuration * SecPerMin
          /\ ~isActive'
          /\ ConfigUnchanged]_vars

\* C4 witness: the long break after the fourth pomodoro has just completed,
\* under a work duration other than the default.
C4_Witness ==
    /\ JustCompleted
    /\ ~isBreak
    /\ completedPomodoros = 4
    /\ workDuration # WorkDefault
    /\ timeLeft = workDuration * SecPerMin

C6_NTicksOneTransition ==
    runFrom > 0 =>
        /\ ticksRun <= runFrom
        /\ ticksRun < runFrom =>
              /\ flipsRun = 0
              /\ isActive
              /\ timeLeft = runFrom - ticksRun
        /\ ticksRun = runFrom =>
              /\ flipsRun = 1
              /\ ~isActive

\* C6 witness: a run started mid-phase with an odd number of seconds left has
\* had all its ticks and changed phase once.
C6_Witness ==
    /\ runFrom > 1
    /\ runFrom % 2 = 1
    /\ ticksRun = runFrom
    /\ flipsRun = 1
    /\ lastOp = "tick"

\* C7: resetTimer, from any state, stops the timer, returns to the focus
\* phase with timeLeft at the configured work duration, and leaves
\* completedPomodoros (and the configuration) unchanged.
C7_Reset ==
    [][lastOp' = "resetTimer" =>
          /\ ~isActive'
          /\ ~isBreak'
          /\ timeLeft' = workDuration * SecPerMin
          /\ completedPomodoros' = completedPomodoros
          /\ intervalRef' # "armed"
          /\ ConfigUnchanged]_vars

\* C7 witness: a reset after some completed pomodoros, under a work duration
\* other than the default.
C7_Witness ==
    /\ lastOp = "resetTimer"
    /\ completedPomodoros = 3
    /\ workDuration # WorkDefault
    /\ timeLeft = workDuration * SecPerMin

\* C8: resetSession, from any state, leaves the state resetTimer would leave
\* (stopped, focus phase, timeLeft at the configured work duration) except
\* that completedPomodoros is 0.
C8_ResetSession ==
    [][lastOp' = "resetSession" =>
          LET r == Render(resetTimer(State))
          IN  /\ completedPomodoros' = 0
              /\ timeLeft' = r.timeLeft
              /\ isActive' = r.isActive
              /\ isBreak' = r.isBreak
              /\ intervalRef' = r.intervalRef
              /\ ~isActive'
              /\ ~isBreak'
              /\ timeLeft' = workDuration * SecPerMin
              /\ ConfigUnchanged]_vars

\* C8 witness: a session reset after the timer has run, under a work duration
\* other than the default.
C8_Witness ==
    /\ lastOp = "resetSession"
    /\ completedPomodoros = 0
    /\ intervalRef = "cleared"
    /\ workDuration # WorkDefault
    /\ timeLeft = workDuration * SecPerMin

\* C9: the play/pause button changes isActive only; while the timer is stopped
\* timeLeft changes only by a reset; and a tick that does not complete the
\* phase takes exactly one second off: across pause and resume no tick is
\* lost or applied twice.
C9_PauseResume ==
    [][/\ lastOp' = "toggleTimer" =>
             /\ isActive' = ~isActive
             /\ timeLeft' = timeLeft
             /\ isBreak' = isBreak
             /\ completedPomodoros' = completedPomodoros
             /\ ConfigUnchanged
       /\ (~isActive /\ lastOp' \notin {"resetTimer", "resetSession"}) =>
             timeLeft' = timeLeft
       /\ (lastOp' = "tick" /\ timeLeft > 1) =>
             /\ timeLeft' = timeLeft - 1
             /\ isBreak' = isBreak
             /\ isActive']_vars

\* C9 witness: a focus countdown that was paused mid-phase (below the shortest
\* work duration, which only ticks reach) has just been started again.
C9_Witness ==
    /\ ~isBreak
    /\ isActive
    /\ lastOp = "toggleTimer"
    /\ timeLeft > 0
    /\ timeLeft < WorkMin * SecPerMin
    /\ intervalRef = "armed"

\* C10: after a pause, a reset or a session reset no interval is left armed,
\* and no tick is applied while the timer is stopped.
C10_StoppedMeansNoTick ==
    [][/\ (lastOp' \in {"toggleTimer", "resetTimer", "resetSession"} /\ ~isActive') =>
             (intervalRef' # "armed" /\ strayIntervals' = 0)
       /\ ~isActive => lastOp' # "tick"]_vars

\* C10 witness: the timer was paused mid-countdown and its interval is
\* cleared.
C10_Witness ==
    /\ lastOp = "toggleTimer"
    /\ ~isActive
    /\ intervalRef = "cleared"
    /\ strayIntervals = 0
    /\ isBreak
    /\ timeLeft < ShortBreakMin * SecPerMin

\* C11: at most one interval is live in any reachable state, and one is live
\* only while the timer runs with time left: every re-run of the timer effect
\* clears the previous interval before it arms a new one.
C11_OneTickSource ==
    /\ strayIntervals = 0
    /\ intervalRef = "armed" => (isActive /\ timeLeft > 0)

\* C11 witness: the timer was started, ticked, paused and started again; one
\* interval is armed.
C11_Witness ==
    /\ lastOp = "toggleTimer"
    /\ isActive
    /\ intervalRef = "armed"
    /\ strayIntervals = 0
    /\ isBreak
    /\ timeLeft < ShortBreakMin * SecPerMin

\* The four fields of the timer's state.
TimerState(s) == <<s.timeLeft, s.isActive, s.isBreak, s.completedPomodoros>>

\* The platform delivers the alarm.
AlarmDelivered == [beep |-> "ok", notify |-> "shown"]

\* C12: a failure of the alarm (the tone's playback or the notification's
\* creation throwing) never affects the timer's state: the tick that completes
\* a phase leaves the state it leaves when the alarm is delivered, and no
\* exception leaves the effect.
C12_AlarmFailureHarmless ==
    [][CompletingTick =>
          /\ ~crashed'
          /\ TimerState(State') =
                 TimerState(Render([tickUpdate(State) EXCEPT !.env = AlarmDelivered]))]_vars

\* C13: playAlarm is called once in the step that completes a phase and in no
\* other step (start, pause, reset, session reset, a slider, a tick that
\* leaves time on the clock).
C13_AlarmOncePerCompletion ==
    [][alarmCalls' = IF CompletingTick THEN 1 ELSE 0]_vars

\* C13 witness: a break has just completed; the alarm was called once and its
\* tone was played.
C13_Witness ==
    /\ JustCompleted
    /\ ~isBreak
    /\ ~crashed
    /\ alarmCalls = 1
    /\ tonesPlayed = 1
    /\ completedPomodoros = 1

\* C14: moving a slider (work, short break, long break, volume), in any state,
\* leaves timeLeft, isActive, isBreak and completedPomodoros unchanged: the
\* timer's state changes only in a tick, start, pause, reset or session reset.
C14_SlidersLeaveTimerState ==
    [][/\ lastOp' \in {"setWorkDuration", "setShortBreakDuration",
                       "setLongBreakDuration", "setAlarmVolume"} =>
             TimerState(State') = TimerState(State)
       /\ TimerState(State') # TimerState(State) =>
             lastOp' \in {"tick", "toggleTimer", "resetTimer", "resetSession"}]_vars

\* C14 witness: the work slider was moved while a focus countdown was running
\* mid-phase, and the countdown is still running.
C14_Witness ==
    /\ lastOp = "setWorkDuration"
    /\ isActive
    /\ ~isBreak
    /\ intervalRef = "armed"
    /\ timeLeft < WorkMin * SecPerMin
    /\ workDuration = WorkMin

\* The progress ratio p1/d1 is greater than p2/d2 (d1, d2 > 0).
RatioGreater(p1, d1, p2, d2) == p1 * d2 > p2 * d1

\* The numerator of the progress ratio; totalDuration is its denominator.
elapsed(s) == totalDuration(s) - s.timeLeft

\* The step enters a new phase: a phase completion, a reset or a session reset.
PhaseStart ==
    \/ lastOp' = "tick" /\ isBreak' # isBreak
    \/ lastOp' \in {"resetTimer", "resetSession"}

\* C15: the state a phase completion, a reset or a session reset produces has
\* timeLeft = totalDuration (progress 0), and every tick that leaves time on
\* the clock strictly increases the progress ratio, which stays at most 1.
C15_ProgressFromZero ==
    [][/\ PhaseStart => (elapsed(State') = 0 /\ totalDuration(State') > 0)
       /\ (lastOp' = "tick" /\ timeLeft > 1) =>
             /\ RatioGreater(elapsed(State'), totalDuration(State'),
                             elapsed(State), totalDuration(State))
             /\ elapsed(State') <= totalDuration(State')]_vars

\* C15 witness: the long break after the fourth pomodoro has just begun, with
\* a long break longer than the short one: progress is 0 of the long break.
C15_Witness ==
    /\ JustCompleted
    /\ isBreak
    /\ completedPomodoros = 4
    /\ longBreakDuration > shortBreakDuration
    /\ timeLeft = totalDuration(State)
    /\ totalDuration(State) = longBreakDuration * SecPerMin

\* C16: throughout a break, the break type chosen when the focus phase
\* completed (long iff the incremented count % 4 = 0) is the type the display
\* derives (long iff completedPomodoros > 0 and completedPomodoros % 4 = 0).
C16_BreakTypeAgrees ==
    isBreak =>
        /\ breakIsLong = (completedPomodoros > 0 /\ completedPomodoros % 4 = 0)
        /\ totalDuration(State) =
               (IF breakIsLong THEN longBreakDuration ELSE shortBreakDuration) * SecPerMin

\* C16 witness: a long break is running mid-countdown after the sliders were
\* moved, with a long break longer than the short one.
C16_Witness ==
    /\ isBreak
    /\ breakIsLong
    /\ isActive
    /\ lastOp = "tick"
    /\ longBreakDuration = LongBreakMin + 1
    /\ timeLeft < ShortBreakMin * SecPerMin

\* The tick completes a focus phase and the break is entered.
BreakEntered == CompletingTick /\ ~isBreak /\ isBreak'

\* C17 as claimed: the break entered has timeLeft = longBreakDuration*60
\* exactly when the label was "Long Break" and shortBreakDuration*60 exactly
\* when it was "Short Break"; on break the label is "Focus" and the phase
\* entered on completion is a focus phase.
C17_LabelPredictsDuration ==
    [][/\ BreakEntered =>
             /\ (timeLeft' = longBreakDuration * SecPerMin)
                    <=> (nextPhaseLabel(State) = "Long Break")
             /\ (timeLeft' = shortBreakDuration * SecPerMin)
                    <=> (nextPhaseLabel(State) = "Short Break")
       /\ isBreak => nextPhaseLabel(State) = "Focus"
       /\ (CompletingTick /\ isBreak /\ ~crashed') => ~isBreak']_vars

\* C17 amended: throughout a focus phase the label stays the same unless the
\* session is reset; the break entered is the long break exactly when the
\* label was "Long Break"; its timeLeft is longBreakDuration*60 when the label
\* was "Long Break" and shortBreakDuration*60 when it was "Short Break" (the
\* two are equal when both sliders are at 15); on break the label is "Focus"
\* and the phase entered on completion is a focus phase.
C17_LabelPredictsBreak ==
    [][/\ (~isBreak /\ ~isBreak' /\ lastOp' # "resetSession") =>
             nextPhaseLabel(State') = nextPhaseLabel(State)
       /\ BreakEntered =>
             /\ breakIsLong' <=> (nextPhaseLabel(State) = "Long Break")
             /\ ~breakIsLong' <=> (nextPhaseLabel(State) = "Short Break")
             /\ nextPhaseLabel(State) = "Long Break" =>
                    timeLeft' = longBreakDuration * SecPerMin
             /\ nextPhaseLabel(State) = "Short Break" =>
                    timeLeft' = shortBreakDuration * SecPerMin
       /\ isBreak => nextPhaseLabel(State) = "Focus"
       /\ (CompletingTick /\ isBreak /\ ~crashed') => ~isBreak']_vars

\* C17 witness: a short break has just been entered while the short and the
\* long break are both 15 minutes.
C17_Witness ==
    /\ JustCompleted
    /\ isBreak
    /\ ~breakIsLong
    /\ shortBreakDuration = longBreakDuration
    /\ timeLeft = shortBreakDuration * SecPerMin

\* C18: in every reachable state a break implies at least one completed
\* pomodoro.
C18_BreakImpliesCompleted == isBreak => completedPomodoros >= 1

\* C18 witness: the first break is running.
C18_Witness ==
    /\ isBreak
    /\ isActive
    /\ completedPomodoros = 1
    /\ lastOp = "tick"

\* C19 (safety half): the countdown is never left running at 0 or below: a
\* running timer has time on the clock, the tick that takes it to 0 having
\* completed the phase and stopped it.
C19_NeverStuckAtZero == isActive => timeLeft > 0

\* The specification under a fair tick source: an armed interval fires.
SpecFair == Init /\ [][Next]_vars /\ WF_vars(Tick)

\* C19 (liveness half): a running timer is eventually stopped, by the user or
\* by the completion of its phase (up to the model's bound on the counter).
C19_EventuallyCompletes ==
    (isActive /\ timeLeft > 0 /\ completedPomodoros < MaxPomodoros) ~> ~isActive
====
